---- MODULE Spec2Model ----
(***************************************************************************)
(* FreeNOS filesystem server core (srv/filesystem/FileSystem.h): the       *)
(* FileCache tree, the path -> FileCache hash table, the open, read and    *)
(* close handlers, insertFileCache and clearFileCache.                     *)
(*                                                                         *)
(* Memory is a heap of FileCache slots.  `alive` is the set of slots that  *)
(* hold a constructed, not yet deleted object; the allocator may hand out  *)
(* any slot that is not alive, so a pointer to a deleted object may come   *)
(* to name a later one.  The bytes of a deleted object are not modelled:   *)
(* a dereference of a slot that is not alive is undefined behaviour, it    *)
(* sets `uaf`, and the behaviour is followed no further.  What the step    *)
(* itself replies is kept in `last`.                                       *)
(*                                                                         *)
(* FileCache::count is never initialised by the constructor.  Each new     *)
(* FileCache draws its count from Garbage.                                 *)
(*                                                                         *)
(* Size is an unsigned machine word.  A count is kept as the integer       *)
(* congruent to it modulo 2^32 that lies in -2^31 .. 2^31-1, so that the   *)
(* word 0xFFFFFFFF is -1 and "count == 0" is "representative = 0".         *)
(***************************************************************************)
EXTENDS Integers, Sequences, FiniteSets, TLC

\* ------------------------------------------------------------------ bounds

\* FileCache slots of the heap besides the one the root is built in.
MaxEntries == 2

\* Handlers are taken only while the touched count stays within
\* -MaxWrap .. MaxCount (as a representative, see above).
MaxCount == 2

MaxWrap == 1

\* --------------------------------------------------------------- constants

PATHLEN == 64

ZERO == 0

ESUCCESS == "ESUCCESS"
ENOSUCH == "ENOSUCH"
EACCESS == "EACCESS"

\* ------------------------------------------------------------- Size words

\* count++ on a Size.
SizeInc(c) == IF c = 2147483647 THEN -2147483647 - 1 ELSE c + 1

\* count-- on a Size.
SizeDec(c) == IF c = -2147483647 - 1 THEN 2147483647 ELSE c - 1

\* Values an uninitialised Size member may hold: zeroed memory, all bits
\* set.
Garbage == {0, -1}

\* ------------------------------------------------------------- path model

Sep == "/"

NoPath == <<>>

Min(a, b) == IF a < b THEN a ELSE b

\* Index of the first separator of t, Len(t) + 1 when there is none.
FirstSep(t) ==
    IF \E i \in 1..Len(t) : t[i] = Sep
    THEN CHOOSE i \in 1..Len(t) : t[i] = Sep /\ \A j \in 1..(i - 1) : t[j] # Sep
    ELSE Len(t) + 1

RECURSIVE Split(_)
\* The components of a path text: what lies between separators, empty
\* components dropped.
Split(t) ==
    IF t = <<>> THEN <<>>
    ELSE IF Head(t) = Sep THEN Split(Tail(t))
    ELSE <<SubSeq(t, 1, FirstSep(t) - 1)>> \o Split(SubSeq(t, FirstSep(t), Len(t)))

RECURSIVE Join(_)
Join(cs) == IF cs = <<>> THEN <<>> ELSE <<Sep>> \o Head(cs) \o Join(Tail(cs))

\* FileSystemPath::full(): the canonical text.
Full(cs) == IF cs = <<>> THEN <<Sep>> ELSE Join(cs)

\* FileSystemPath::parent(): the canonical text of the containing
\* directory, absent for the root path.
ParentOf(cs) == IF cs = <<>> THEN NoPath ELSE Full(SubSeq(cs, 1, Len(cs) - 1))

\* FileSystemPath::parse(text).
parse(t) == [full |-> Full(Split(t)), parent |-> ParentOf(Split(t))]

\* The File pointer ZERO.
NoFile == <<>>

\* The FileSystemPath pointer ZERO.
NullPath == [full |-> NoPath, parent |-> NoPath]

\* VMCopy(msg->from, Read, buf, msg->buffer, PATHLEN): the first PATHLEN
\* bytes of the caller's text arrive in buf.
CopyPath(t) == SubSeq(t, 1, Min(Len(t), PATHLEN))

\* Bytes that lie behind buf on the handler's stack, up to the first zero
\* byte: none, or one that is no separator.
Overrun == {<<>>, <<"?">>}

\* What path.parse(buf) reads: the caller's text when its terminator was
\* copied with it; otherwise the PATHLEN bytes of buf hold no terminator
\* and parse reads on into the bytes behind buf.
BufText(t, over) == IF Len(t) < PATHLEN THEN t ELSE CopyPath(t) \o over

\* vsnprintf(path, sizeof(path), ...): at most PATHLEN - 1 characters and
\* the terminator.
FormatPath(t) == SubSeq(t, 1, Min(Len(t), PATHLEN - 1))

\* ------------------------------------------------------------------ inputs

PathA == <<"/", "a">>
PathAB == <<"/", "a", "/", "b">>
PathB == <<"/", "b">>

\* Path texts clients send with OpenFile: canonical ones, one that is not
\* canonical, one no backing store resolves.
ReqTexts == {PathA, PathAB, <<"/", "/", "a", "/">>, <<"/", "x">>}

\* Path texts a backing store inserts on its own.
InsertTexts == {PathA, PathAB, PathB}

\* A path of PATHLEN - 1 characters, the longest a buffer of PATHLEN holds.
PathLongest == <<"/">> \o [i \in 1..(PATHLEN - 2) |-> "a"]

\* A path under PathLongest, PATHLEN + 2 characters.
PathUnder == PathLongest \o <<"/", "b", "c">>

\* A path of PATHLEN + 1 characters.
PathOver == PathLongest \o <<"a", "a">>

\* Path texts of the runs with long paths.
LongReqTexts == {PathLongest, PathUnder, PathA}
LongInsertTexts == {PathLongest, PathOver}

\* Canonical paths the backing store resolves on a miss.
Resolvable == {PathA, PathAB}

\* Values VMCopy returns: an error code, nothing copied, PATHLEN bytes.
VMCopyResults == {-1, 0, PATHLEN}

\* ------------------------------------------------------------------- state

Addr == 1..(MaxEntries + 1)

\* FileSystem::root, set once by the constructor.
root == 1

VARIABLES
    heap,      \* Addr -> FileCache bytes
    alive,     \* slots holding a live FileCache
    cache,     \* HashTable<String, FileCache>: canonical path -> Addr
    uaf,       \* a slot that is not alive has been dereferenced
    last       \* the request or call handled last, and its reply

vars == <<heap, alive, cache, uaf, last>>

\* Bytes of a slot never handed out.
Blank == [file |-> NoFile, path |-> NullPath, parent |-> ZERO, childs |-> <<>>, count |-> 0]

\* The part of the state the FileSystem methods work on.
Mem == [heap |-> heap, alive |-> alive, cache |-> cache, uaf |-> uaf, diverged |-> FALSE]

\* A dereference of the FileCache at a.
Touch(st, a) == [st EXCEPT !.uaf = @ \/ a \notin st.alive]

\* Addresses some pointer of the program holds: the hash table's values,
\* the parent and childs members of the live entries.
Referenced(st) ==
    {st.cache[k] : k \in DOMAIN st.cache}
        \cup {st.heap[a].parent : a \in st.alive}
        \cup UNION {{st.heap[a].childs[i] : i \in 1..Len(st.heap[a].childs)} : a \in st.alive}

\* Free slots no pointer refers to; they are interchangeable.
Fresh(st) == (Addr \ st.alive) \ Referenced(st)

\* operator new: any slot that is not alive, those of Fresh(st) standing
\* for one another.
AllocChoices(st) ==
    ((Addr \ st.alive) \cap Referenced(st))
        \cup (IF Fresh(st) = {} THEN {}
              ELSE {CHOOSE a \in Fresh(st) : \A b \in Fresh(st) : a <= b})

\* new FileCache(f, p) in slot a: file, path and parent are set, childs is
\* an empty list, count is not initialised and holds g.
NewFileCache(st, a, f, p, g) ==
    [st EXCEPT !.heap[a] = [file |-> f, path |-> p, parent |-> ZERO,
                            childs |-> <<>>, count |-> g],
               !.alive = @ \cup {a}]

\* cache[key]: the FileCache stored under key, ZERO when there is none.
Lookup(c, key) == IF key \in DOMAIN c THEN c[key] ELSE ZERO

\* cache.insert(key, entry).
HashInsert(c, key, a) == [k \in DOMAIN c \cup {key} |-> IF k = key THEN a ELSE c[k]]

\* List<FileCache>::remove(entry).
ListRemove(s, a) == SelectSeq(s, LAMBDA x : x # a)

\* ------------------------------------------------------ insertFileCache

\* The parent insertFileCache picks for the parsed path p.
ParentFor(st, p) ==
    IF p.parent # NoPath /\ Lookup(st.cache, p.parent) # ZERO
    THEN Lookup(st.cache, p.parent)
    ELSE root

\* insertFileCache(file, text) with the new FileCache built in slot a, its
\* count holding g.  Result: the memory and the entry returned.
insertFileCache(st, a, g, f, text) ==
    LET p      == parse(FormatPath(text))
        parent == ParentFor(st, p)
        s1     == NewFileCache(st, a, f, p, g)
        s2     == [s1 EXCEPT !.heap[a].parent = parent,
                             !.cache = HashInsert(@, p.full, a)]
        s3     == Touch(s2, parent)
    IN  [st    |-> [s3 EXCEPT !.heap[parent].childs = Append(@, a)],
         entry |-> a]

\* ------------------------------------------------------ the constructor

\* FileSystem::FileSystem: the handlers registered with the IPC server.
ipcHandlers == {"OpenFile", "ReadFile"}

\* What is kept of a request and its reply.  For ReadFile: size and offset
\* are the request's, got is what File::read returned, copy what VMCopy
\* returned, code the Error value replied when it is no named code, sent
\* the reply's size.
NoCall == [op |-> "none", text |-> NoPath, arg |-> ZERO, result |-> "none",
           ident |-> ZERO, calls |-> <<>>, pre |-> 0,
           size |-> 0, offset |-> 0, got |-> 0, copy |-> 0, code |-> 0, sent |-> 0]

\* The state after construction: the dummy root, count++ on its
\* uninitialised count, an empty hash table.
Init ==
    /\ \E g \in Garbage :
          heap = [a \in Addr |->
                     IF a = root
                     THEN [file |-> NoFile, path |-> NullPath, parent |-> ZERO,
                           childs |-> <<>>, count |-> SizeInc(g)]
                     ELSE Blank]
    /\ alive = {root}
    /\ cache = <<>>
    /\ uaf = FALSE
    /\ last = NoCall

\* A backing store calls insertFileCache to pre-populate the tree, with a
\* path the hash table does not hold.
InsertOf(texts) ==
    /\ ~uaf
    /\ \E text \in texts, g \in Garbage :
       \E a \in AllocChoices(Mem) :
          LET r == insertFileCache(Mem, a, g, parse(text).full, text)
          IN  /\ parse(FormatPath(text)).full \notin DOMAIN cache
              /\ heap' = r.st.heap
              /\ alive' = r.st.alive
              /\ cache' = r.st.cache
              /\ uaf' = r.st.uaf
              /\ last' = [NoCall EXCEPT !.op = "insertFileCache", !.text = text,
                                        !.ident = r.entry]

Insert == InsertOf(InsertTexts)

\* ------------------------------------------------------- clearFileCache

RECURSIVE clearFileCache(_, _, _)
RECURSIVE WalkChilds(_, _, _)

\* "May we clear this entry?"
MayClear(e) == e.count = 0

\* The loop over cache->childs: clearFileCache on every child, in list
\* order.
WalkChilds(st, kids, fuel) ==
    IF kids = <<>> THEN st
    ELSE WalkChilds(clearFileCache(st, Head(kids), fuel), Tail(kids), fuel)

\* "Remove us from our parent": cache->parent->childs.remove(cache).
RemoveFromParent(st, c) ==
    LET par == st.heap[c].parent
    IN  IF par # ZERO
        THEN [Touch(st, par) EXCEPT !.heap[par].childs = ListRemove(@, c)]
        ELSE st

\* delete cache->path; delete cache->file; delete cache.
Release(st, c) ==
    [st EXCEPT !.alive = @ \ {c}, !.uaf = @ \/ c \notin st.alive, !.heap[c] = Blank]

\* clearFileCache(c).  fuel is the depth left before the walk is known to
\* run in a cycle of child lists, where the recursion never returns.
clearFileCache(st, c, fuel) ==
    IF fuel = 0 THEN [st EXCEPT !.diverged = TRUE]
    ELSE
        LET s0 == Touch(st, c)
            s1 == WalkChilds(s0, s0.heap[c].childs, fuel - 1)
        IN  IF MayClear(s1.heap[c])
            THEN Release(RemoveFromParent(s1, c), c)
            ELSE s1

\* clearFileCache(start), ZERO standing for the root.
Clear(st, start) ==
    clearFileCache(st, IF start = ZERO THEN root ELSE start, Cardinality(Addr) + 1)

\* A backing store calls clearFileCache, from the root or from an entry.
Evict ==
    /\ ~uaf
    /\ \E start \in {ZERO} \cup (alive \ {root}) :
          LET r == Clear(Mem, start)
          IN  /\ ~r.diverged
              /\ heap' = r.heap
              /\ alive' = r.alive
              /\ cache' = r.cache
              /\ uaf' = r.uaf
              /\ last' = [NoCall EXCEPT !.op = "clearFileCache", !.arg = start]

\* ------------------------------------------------------ openFileHandler

\* cacheHit(c): the default hook returns its argument.
cacheHit(c) == c

\* findFileCache(p): the hash table's answer, passed through cacheHit.
findFileCache(st, p) == cacheHit(Lookup(st.cache, p.full))

\* lookupFile(p) of a backing store: a resolvable path is loaded and
\* inserted (the new FileCache in slot a, its count holding g), any other
\* path yields ZERO.
lookupFile(st, p, a, g) ==
    IF p.full \in Resolvable
    THEN insertFileCache(st, a, g, p.full, p.full)
    ELSE [st |-> st, entry |-> ZERO]

\* A handler that takes only an error code of VMCopy for a failure.
CopyFailedNegative(copied) == copied < 0

\* The test on VMCopy's result: "<= 0".
CopyFailed(copied) == copied <= 0

\* "Do we have this file cached?": findFileCache, and lookupFile when it
\* yields ZERO.  Result: the memory, the entry, the hooks called.
FindOrLookup(st, p, a, g) ==
    LET found == findFileCache(st, p)
    IN  IF found # ZERO
        THEN [st |-> st, entry |-> found, calls |-> <<"findFileCache", "cacheHit">>]
        ELSE [st    |-> lookupFile(st, p, a, g).st,
              entry |-> lookupFile(st, p, a, g).entry,
              calls |-> <<"findFileCache", "cacheHit", "lookupFile">>]

\* A handler without the else branch: the reply says ESUCCESS whatever
\* was found.
OpenReplyNoElse(look) ==
    IF look.entry # ZERO
    THEN [st     |-> [Touch(look.st, look.entry) EXCEPT
                          !.heap[look.entry].count = SizeInc(@)],
          result |-> ESUCCESS,
          ident  |-> look.entry,
          calls  |-> look.calls,
          pre    |-> look.st.heap[look.entry].count]
    ELSE [st |-> look.st, result |-> ESUCCESS, ident |-> ZERO,
          calls |-> look.calls, pre |-> 0]

\* The branch on the entry found: count++ and the entry's identity with
\* ESUCCESS, or ENOSUCH.
OpenReply(look) ==
    IF look.entry # ZERO
    THEN [st     |-> [Touch(look.st, look.entry) EXCEPT
                          !.heap[look.entry].count = SizeInc(@)],
          result |-> ESUCCESS,
          ident  |-> look.entry,
          calls  |-> look.calls,
          pre    |-> look.st.heap[look.entry].count]
    ELSE [st |-> look.st, result |-> ENOSUCH, ident |-> ZERO,
          calls |-> look.calls, pre |-> 0]

\* openFileHandler(msg, reply): copied is what VMCopy returned, text the
\* caller's path, over the bytes behind buf.  Result: the memory, the
\* reply, the hooks called, the count the entry had before.
openFileHandler(st, text, over, copied, a, g) ==
    IF CopyFailed(copied)
    THEN [st |-> st, result |-> EACCESS, ident |-> ZERO, calls |-> <<>>, pre |-> 0]
    ELSE OpenReply(FindOrLookup(st, parse(BufText(text, over)), a, g))

\* Whether openFileHandler allocates: the copy succeeded, the hash table
\* has no entry, the backing store resolves the path.
OpenAllocates(st, text, over, copied) ==
    /\ ~CopyFailed(copied)
    /\ findFileCache(st, parse(BufText(text, over))) = ZERO
    /\ parse(BufText(text, over)).full \in Resolvable

\* An OpenFile message is delivered and dispatched to its handler.  The
\* caller's text is read only when the copy succeeds.
OpenFileOf(texts) ==
    /\ ~uaf
    /\ "OpenFile" \in ipcHandlers
    /\ \E copied \in VMCopyResults :
       \E text \in (IF copied > 0 THEN texts ELSE {NoPath}) :
       \E over \in (IF Len(text) < PATHLEN THEN {<<>>} ELSE Overrun) :
       \E a \in (IF OpenAllocates(Mem, text, over, copied) THEN AllocChoices(Mem) ELSE {root}),
          g \in (IF OpenAllocates(Mem, text, over, copied) THEN Garbage ELSE {0}) :
          LET r == openFileHandler(Mem, text, over, copied, a, g)
          IN  /\ r.ident # ZERO => r.st.heap[r.ident].count \in -MaxWrap..MaxCount
              /\ heap' = r.st.heap
              /\ alive' = r.st.alive
              /\ cache' = r.st.cache
              /\ uaf' = r.st.uaf
              /\ last' = [NoCall EXCEPT !.op = "OpenFile", !.text = text,
                                        !.arg = copied, !.result = r.result,
                                        !.ident = r.ident, !.calls = r.calls,
                                        !.pre = r.pre]

IPCOpenFile == OpenFileOf(ReqTexts)

\* ----------------------------------------------------- closeFileHandler

\* A close that releases the entry once its count is back at 0.
closeFileHandlerEvicting(st, ident) ==
    LET s1 == [Touch(st, ident) EXCEPT !.heap[ident].count = SizeDec(@)]
    IN  IF MayClear(s1.heap[ident]) THEN Release(RemoveFromParent(s1, ident), ident)
        ELSE s1

\* closeFileHandler(msg, reply): count-- on the FileCache msg->ident names.
closeFileHandler(st, ident) ==
    [Touch(st, ident) EXCEPT !.heap[ident].count = SizeDec(@)]

\* Identities a request may carry: the addresses an OpenFile can reply.
Idents == Addr \ {root}

\* closeFileHandler is called with such an identity.
CallClose ==
    /\ ~uaf
    /\ \E ident \in Idents :
          LET r == closeFileHandler(Mem, ident)
          IN  /\ r.heap[ident].count \in -MaxWrap..MaxCount
              /\ heap' = r.heap
              /\ alive' = r.alive
              /\ cache' = r.cache
              /\ uaf' = r.uaf
              /\ last' = [NoCall EXCEPT !.op = "closeFileHandler", !.arg = ident,
                                        !.pre = heap[ident].count]

\* IPCServer: the message's action selects the handler registered for it;
\* with none registered no handler runs.
Dispatch(action, st, ident) ==
    IF action \in ipcHandlers
    THEN closeFileHandler(st, ident)
    ELSE st

\* A CloseFile message carrying such an identity is delivered.
IPCCloseFile ==
    /\ ~uaf
    /\ \E ident \in Idents :
          LET r == Dispatch("CloseFile", Mem, ident)
          IN  /\ r.heap[ident].count \in -MaxWrap..MaxCount
              /\ heap' = r.heap
              /\ alive' = r.alive
              /\ cache' = r.cache
              /\ uaf' = r.uaf
              /\ last' = [NoCall EXCEPT !.op = "CloseFile", !.arg = ident,
                                        !.pre = heap[ident].count]

\* ------------------------------------------------------ readFileHandler

\* sizeof(buf): the local buffer of readFileHandler.
BUFSIZE == 1024

\* Length in bytes of the resource behind a File: the one loaded for PathA
\* is longer than the buffer.
FileSize(f) == IF f = PathA THEN 2000 ELSE 10

\* What a File that has the bytes returns for read(buf, size, offset): the
\* number of bytes from offset on, size at most.
Available(f, size, offset) ==
    IF offset >= FileSize(f) THEN 0 ELSE Min(size, FileSize(f) - offset)

\* Error values a File::read may return instead.
FileErrors == {-1, 0}

\* File::read(buf, size, offset) is virtual: the bytes available, an error
\* value, or more than was asked for.
FileReadResults(f, size, offset) ==
    {Available(f, size, offset)} \cup FileErrors \cup {size + 1}

\* VMCopy(msg->procID, Write, buf, msg->buffer, n): an error code, or the n
\* bytes copied.
WriteCopyResults(n) == {-1, n}

\* Requested sizes and offsets of ReadFile messages.
ReadSizes == {0, 976, 1024, 2000}
ReadOffsets == {0, 1024}

\* A handler that asks the File for all the caller wants.
BufSizeRequested(size) == size

\* "bufSize = sizeof(buf) > msg->size ? msg->size : sizeof(buf)".
BufSize(size) == IF BUFSIZE > size THEN size ELSE BUFSIZE

\* "Recalculate number of bytes".
Recalculate(result, bufSize) == IF result > bufSize THEN bufSize ELSE result

\* A handler that takes only a negative value for a failure.
ReadGotBytesOrNone(got) == got >= 0

\* The test on File::read's result: "> 0".
ReadGotBytes(got) == got > 0

\* readFileHandler(msg, reply): got is what fc->file->read returned, copy
\* what VMCopy returned (it is not looked at).  Result: the memory, the
\* reply, the calls made.
readFileHandler(st, ident, size, offset, got, copy) ==
    IF ReadGotBytes(got)
    THEN [st     |-> Touch(st, ident),
          result |-> ESUCCESS,
          code   |-> 0,
          sent   |-> Recalculate(got, BufSize(size)),
          calls  |-> <<"read", "VMCopy">>]
    ELSE [st     |-> Touch(st, ident),
          result |-> "Error",
          code   |-> got,
          sent   |-> 0,
          calls  |-> <<"read">>]

\* A ReadFile message is delivered and dispatched to its handler.
IPCReadFile ==
    /\ ~uaf
    /\ "ReadFile" \in ipcHandlers
    /\ \E ident \in Idents, size \in ReadSizes, offset \in ReadOffsets :
       \E got \in FileReadResults(heap[ident].file, BufSize(size), offset) :
       \E copy \in (IF ReadGotBytes(got)
                    THEN WriteCopyResults(Recalculate(got, BufSize(size)))
                    ELSE {0}) :
          LET r == readFileHandler(Mem, ident, size, offset, got, copy)
          IN  /\ uaf' = r.st.uaf
              /\ last' = [NoCall EXCEPT !.op = "ReadFile", !.arg = ident,
                                        !.size = size, !.offset = offset,
                                        !.got = got, !.copy = copy,
                                        !.result = r.result, !.code = r.code,
                                        !.sent = r.sent, !.calls = r.calls]
              /\ UNCHANGED <<heap, alive, cache>>

\* ----------------------------------------------------------------- system

Next ==
    \/ Insert
    \/ Evict
    \/ IPCOpenFile
    \/ IPCCloseFile
    \/ CallClose

Spec == Init /\ [][Next]_vars

\* The read path: a backing store fills the cache, clients read.
NextRead ==
    \/ Insert
    \/ IPCReadFile

SpecRead == Init /\ [][NextRead]_vars

\* A backing store inserts and clients open paths at and over PATHLEN.
InsertLong == InsertOf(LongInsertTexts)

IPCOpenFileLong == OpenFileOf(LongReqTexts)

NextLong ==
    \/ InsertLong
    \/ IPCOpenFileLong
    \/ CallClose

SpecLong == Init /\ [][NextLong]_vars

\* ----------------------------------------------------------- vocabulary

Range(s) == {s[i] : i \in 1..Len(s)}

RECURSIVE Descend(_, _, _)
\* The addresses reached from the set S by following childs lists of h,
\* n levels deep.
Descend(h, S, n) ==
    IF n = 0 THEN S
    ELSE Descend(h, S \cup UNION {Range(h[a].childs) : a \in S}, n - 1)

\* The addresses the tree of h holds: what the root's childs lists lead to.
InTree(h) == Descend(h, {root}, Cardinality(Addr))

RECURSIVE ReachesRoot(_, _, _, _)
\* Following parent from a arrives at the root, through live entries, in
\* at most n steps.
ReachesRoot(h, live, a, n) ==
    IF a = root THEN root \in live
    ELSE IF n = 0 \/ a = ZERO \/ a \notin live THEN FALSE
    ELSE ReachesRoot(h, live, h[a].parent, n - 1)

\* Every live entry but the root has a live parent, is in that parent's
\* childs and reaches the root.
TreeOK(h, live) ==
    \A a \in live \ {root} :
        /\ h[a].parent \in live
        /\ a \in Range(h[h[a].parent].childs)
        /\ ReachesRoot(h, live, a, Cardinality(Addr))

OpenedOK(l) == l.op = "OpenFile" /\ l.result = ESUCCESS

\* The root is live and its count is not 0.
RootHeld == root \in alive /\ heap[root].count # 0

\* ------------------------------------------------------------------ claims

\* C1: clearFileCache never frees or detaches an entry whose count is
\* greater than 0: after a clearFileCache step (the root being held) every
\* entry that had a nonzero count, and the entry the request just before
\* opened, is still live with its file and path, and is still in the tree
\* if it was.
C1_EvictKeepsOpenEntries ==
    [][(last'.op = "clearFileCache" /\ RootHeld) =>
          \A a \in alive :
              (heap[a].count # 0 \/ (OpenedOK(last) /\ last.ident = a)) =>
                  /\ a \in alive'
                  /\ heap'[a].file = heap[a].file
                  /\ heap'[a].path = heap[a].path
                  /\ a \in InTree(heap) => a \in InTree(heap')]_vars

\* C2: the hash table and the tree agree in every reachable state (the
\* root being held): a path maps to an entry in the hash table exactly when
\* that entry is a live entry of the tree with that path.
C2_IndexAgreesWithTree ==
    RootHeld =>
        /\ \A k \in DOMAIN cache :
              /\ cache[k] \in alive
              /\ cache[k] \in InTree(heap)
              /\ heap[cache[k]].path.full = k
        /\ \A a \in (alive \cap InTree(heap)) \ {root} :
              Lookup(cache, heap[a].path.full) = a

\* C3: every live entry but the root has a live parent, is in that parent's
\* childs and reaches the root; clearFileCache (the root being held) keeps
\* it so, also when a parent has count 0 and a child of it has not.
C3_EvictKeepsTree ==
    [][(last'.op = "clearFileCache" /\ RootHeld /\ TreeOK(heap, alive)) =>
          TreeOK(heap', alive')]_vars

\* C4: an OpenFile the backing store resolved, followed at once by a
\* successful OpenFile of the same path: the second replies the same
\* identity, leaves the count at 2 and does not call lookupFile.
C4_SecondOpenHits ==
    [][(/\ OpenedOK(last)
        /\ "lookupFile" \in Range(last.calls)
        /\ OpenedOK(last')
        /\ parse(last'.text).full = parse(last.text).full) =>
          /\ last'.ident = last.ident
          /\ heap'[last'.ident].count = 2
          /\ "lookupFile" \notin Range(last'.calls)]_vars

\* C5: an OpenFile whose path is copied, is not in the hash table and is not
\* resolved by the backing store replies ENOSUCH and leaves the heap, the
\* live set (the tree, every count) and the hash table as they were.
C5_UnresolvableOpen ==
    [][(/\ last'.op = "OpenFile"
        /\ last'.arg > 0
        /\ Lookup(cache, parse(last'.text).full) = ZERO
        /\ parse(last'.text).full \notin Resolvable) =>
          /\ last'.result = ENOSUCH
          /\ heap' = heap
          /\ alive' = alive
          /\ cache' = cache]_vars

\* C5 witness: an OpenFile was answered ENOSUCH while the cache held an
\* entry with a count above 0.
C5_Witness ==
    /\ last.op = "OpenFile"
    /\ last.result = ENOSUCH
    /\ DOMAIN cache # {}
    /\ \E a \in alive \ {root} : heap[a].count > 0

\* C6: an OpenFile whose path cannot be copied (VMCopy returns zero or less)
\* replies EACCESS, calls neither findFileCache, cacheHit nor lookupFile,
\* and leaves the heap, the live set and the hash table as they were.
C6_CopyFailure ==
    [][(last'.op = "OpenFile" /\ last'.arg <= 0) =>
          /\ last'.result = EACCESS
          /\ last'.calls = <<>>
          /\ heap' = heap
          /\ alive' = alive
          /\ cache' = cache]_vars

\* C6 witness: an OpenFile whose copy returned 0 was answered EACCESS while
\* the cache held an entry.
C6_Witness ==
    /\ last.op = "OpenFile"
    /\ last.arg = 0
    /\ last.result = EACCESS
    /\ DOMAIN cache # {}

\* C7: the root entry exists in every reachable state.
C7_RootExists == root \in alive

\* C8: after clearFileCache from the root, with the root held, the live
\* entries are the root and the entries whose count was not 0; an entry
\* kept, whose parent is kept, has its parent, its place in the parent's
\* childs and its count unchanged.
C8_EvictFromRoot ==
    [][(/\ last'.op = "clearFileCache"
        /\ last'.arg = ZERO
        /\ RootHeld) =>
          /\ alive' = {root} \cup {a \in alive : heap[a].count # 0}
          /\ \A a \in alive \ {root} :
                (heap[a].count # 0 /\ heap[a].parent \in alive') =>
                    /\ heap'[a].parent = heap[a].parent
                    /\ heap'[a].count = heap[a].count
                    /\ a \in Range(heap[heap[a].parent].childs)
                          => a \in Range(heap'[heap[a].parent].childs)]_vars

\* C9: a successful OpenFile followed by closeFileHandler on the identity
\* replied returns the count to what it was before the open; when a
\* closeFileHandler has left a live entry of the tree without childs at
\* count 0, a following clearFileCache (the root being held) removes it
\* from the tree and from the hash table.
C9_OpenCloseEvict ==
    [][/\ (/\ OpenedOK(last)
           /\ last'.op = "closeFileHandler"
           /\ last'.arg = last.ident) =>
              heap'[last.ident].count = last.pre
       /\ (/\ last.op = "closeFileHandler"
           /\ last.arg \in alive \cap InTree(heap)
           /\ heap[last.arg].count = 0
           /\ heap[last.arg].childs = <<>>
           /\ last'.op = "clearFileCache"
           /\ last'.arg = ZERO
           /\ RootHeld) =>
              /\ last.arg \notin alive'
              /\ last.arg \notin InTree(heap')
              /\ \A k \in DOMAIN cache' : cache'[k] # last.arg]_vars

\* C10: a CloseFile message is dispatched to closeFileHandler: a successful
\* OpenFile followed by a CloseFile carrying the identity replied leaves
\* the entry's count at what it was before the open.
C10_CloseFileDispatched ==
    [][(/\ OpenedOK(last)
        /\ last'.op = "CloseFile"
        /\ last'.arg = last.ident) =>
          heap'[last.ident].count = last.pre]_vars

\* C11: closeFileHandler on a live entry takes exactly one from its count
\* and changes nothing else: the live set, the hash table, every other
\* entry, the entry's file, path, parent and childs stay as they were, and
\* no entry is freed, also when the count arrives at 0.
C11_CloseFrame ==
    [][(last'.op = "closeFileHandler" /\ last'.arg \in alive) =>
          /\ heap' = [heap EXCEPT ![last'.arg].count = @ - 1]
          /\ alive' = alive
          /\ cache' = cache]_vars

\* C11 witness: closeFileHandler has taken the count of an entry of the
\* tree from 1 to 0, and the entry is still live and in the hash table.
C11_Witness ==
    /\ last.op = "closeFileHandler"
    /\ last.pre = 1
    /\ last.arg \in alive \cap InTree(heap)
    /\ heap[last.arg].count = 0
    /\ \E k \in DOMAIN cache : cache[k] = last.arg

\* A ReadFile on a live entry whose File returned the bytes it has.
ReadAvailable(l) ==
    /\ l.op = "ReadFile"
    /\ l.arg \in alive
    /\ l.got = Available(heap[l.arg].file, BufSize(l.size), l.offset)

\* C12: a ReadFile of n bytes at offset o reports at most min(n, 1024)
\* bytes and never more than File::read returned; when the File returns
\* the bytes it has, the reply reports the bytes from o on, min(n, 1024) at
\* most, so that on a File of 2000 bytes read(0, 2000) reports 1024 and the
\* read(1024, 976) that follows reports 976, the two together the File.
C12_ReadChunks ==
    [][(last'.op = "ReadFile" /\ last'.arg \in alive) =>
          /\ last'.sent <= Min(last'.size, BUFSIZE)
          /\ last'.sent <= (IF last'.got > 0 THEN last'.got ELSE 0)
          /\ ReadAvailable(last') =>
                /\ last'.sent = Available(heap[last'.arg].file,
                                          Min(last'.size, BUFSIZE), last'.offset)
                /\ (FileSize(heap[last'.arg].file) = 2000 /\ last'.offset = 0
                       /\ last'.size = 2000) => last'.sent = 1024
                /\ (/\ ReadAvailable(last)
                    /\ last.arg = last'.arg
                    /\ FileSize(heap[last.arg].file) = 2000
                    /\ last.offset = 0
                    /\ last.size = 2000
                    /\ last'.offset = last.offset + last.sent
                    /\ last'.size = 976) =>
                       /\ last'.sent = 976
                       /\ last.sent + last'.sent = 2000]_vars

\* C12 witness: a ReadFile of 976 bytes at offset 1024 of the File of 2000
\* bytes has reported 976 bytes.
C12_Witness ==
    /\ ReadAvailable(last)
    /\ FileSize(heap[last.arg].file) = 2000
    /\ last.offset = 1024
    /\ last.size = 976
    /\ last.sent = 976
    /\ last.result = ESUCCESS

\* C13: when File::read returns zero or a negative value, the ReadFile
\* reply carries that value as its result and size 0, VMCopy is not called
\* and File::read is called once.
C13_ReadError ==
    [][(last'.op = "ReadFile" /\ last'.arg \in alive /\ last'.got <= 0) =>
          /\ last'.result # ESUCCESS
          /\ last'.code = last'.got
          /\ last'.sent = 0
          /\ last'.calls = <<"read">>]_vars

\* C13 witness: a ReadFile on a live entry whose File returned -1 was
\* answered with -1 and size 0.
C13_Witness ==
    /\ last.op = "ReadFile"
    /\ last.arg \in alive
    /\ last.got = -1
    /\ last.code = -1
    /\ last.sent = 0

\* C14: when the VMCopy of the buffer into the caller fails, the ReadFile
\* reply does not say ESUCCESS with a size above 0.
C14_ReadCopyFailure ==
    [][(/\ last'.op = "ReadFile"
        /\ last'.arg \in alive
        /\ "VMCopy" \in Range(last'.calls)
        /\ last'.copy < 0) =>
          ~(last'.result = ESUCCESS /\ last'.sent > 0)]_vars

\* C15: a path longer than PATHLEN is rejected, not cut short: an OpenFile
\* carrying one does not reply ESUCCESS with the entry of the path its first
\* PATHLEN characters spell, and an insertFileCache of one creates no entry
\* and no key in the hash table.
C15_LongPathRejected ==
    [][/\ (/\ last'.op = "OpenFile"
           /\ last'.arg > 0
           /\ Len(last'.text) > PATHLEN) =>
              ~(/\ last'.result = ESUCCESS
                /\ last'.ident \in alive'
                /\ heap'[last'.ident].path.full = parse(CopyPath(last'.text)).full)
       /\ (last'.op = "insertFileCache" /\ Len(last'.text) > PATHLEN) =>
              /\ alive' = alive
              /\ cache' = cache]_vars

\* The entry insertFileCache is to attach a new entry with the parsed path
\* p under: the hash table's entry for the parent path, else the root.
AttachPoint(p) ==
    IF p.parent # NoPath /\ p.parent \in DOMAIN cache THEN cache[p.parent] ELSE root

\* C16: insertFileCache (the root being held) attaches the new entry under
\* the cached entry for its parent path when the hash table holds that
\* path, under the root otherwise: that entry is a live entry, it becomes
\* the new entry's parent and the new entry the last of its childs; no
\* other entry is created, and the hash table gains the new entry under its
\* full path.
C16_InsertAttaches ==
    [][(last'.op = "insertFileCache" /\ RootHeld) =>
          /\ AttachPoint(parse(last'.text)) \in alive
          /\ last'.ident \notin alive
          /\ alive' = alive \cup {last'.ident}
          /\ heap'[last'.ident].parent = AttachPoint(parse(last'.text))
          /\ heap'[AttachPoint(parse(last'.text))].childs
                = Append(heap[AttachPoint(parse(last'.text))].childs, last'.ident)
          /\ cache' = HashInsert(cache, parse(last'.text).full, last'.ident)]_vars

\* How often the call c is in the sequence s of calls.
Count(s, c) == Cardinality({i \in 1..Len(s) : s[i] = c})

\* C17: an OpenFile whose path is copied calls cacheHit exactly when the
\* hash table holds the path, and then calls it once and does not call
\* lookupFile; when the hash table does not hold the path, cacheHit is not
\* called and lookupFile is called once.
C17_HitHookOnHit ==
    [][(last'.op = "OpenFile" /\ last'.arg > 0) =>
          IF Lookup(cache, parse(last'.text).full) # ZERO
          THEN /\ Count(last'.calls, "cacheHit") = 1
               /\ Count(last'.calls, "lookupFile") = 0
          ELSE /\ Count(last'.calls, "cacheHit") = 0
               /\ Count(last'.calls, "lookupFile") = 1]_vars

\* C18: counts start at defined values: after construction the root's
\* count is 1; an entry insertFileCache creates has count 0, and the
\* OpenFile whose lookupFile created the entry leaves its count at 1.
C18_CountsDefined ==
    /\ heap[root].count = 1
    /\ [][/\ last'.op = "insertFileCache" => heap'[last'.ident].count = 0
          /\ (OpenedOK(last') /\ "lookupFile" \in Range(last'.calls)) =>
                heap'[last'.ident].count = 1]_vars

\* C19: a successful OpenFile (the root being held) never replies the
\* identity of a freed entry: the entry replied is one lookupFile has just
\* created, or one that was live when the request arrived.
C19_OpenRepliesLiveEntry ==
    [][(OpenedOK(last') /\ RootHeld) =>
          /\ last'.ident \in alive'
          /\ "lookupFile" \notin Range(last'.calls) => last'.ident \in alive]_vars

\* C20: a count never wraps: closeFileHandler on a live entry whose count
\* is 0 does not leave the count at a word with the high bits set, and the
\* entry may still be cleared.
C20_CloseNeverWraps ==
    [][(/\ last'.op = "closeFileHandler"
        /\ last'.arg \in alive
        /\ heap[last'.arg].count = 0) =>
          /\ heap'[last'.arg].count >= 0
          /\ MayClear(heap'[last'.arg])]_vars
====
